---------------------------- MODULE Spec2Model ----------------------------
(***************************************************************************)
(* discedit: one editing session of main.go.                               *)
(*                                                                         *)
(* Three parties take steps: the foreground thread (main/run/edit), the    *)
(* watcher goroutine started by edit(), and the external editor process,   *)
(* which is the only party besides the program that touches the temporary  *)
(* file.  The forum server is the environment of every request: it answers *)
(* with any status, or the transport fails.                                *)
(*                                                                         *)
(* Texts are sequences of one-character strings so that TrimSpace is       *)
(* computed, not assumed.                                                  *)
(***************************************************************************)
EXTENDS Integers, Sequences, FiniteSets, TLC

(***************************************************************************)
(* Bounds of the model.                                                    *)
(***************************************************************************)
MaxWrites == 2      \* writes of the file by the editor in one session
MaxFails  == 1      \* failing save requests the server/transport produces
MaxStr    == 2      \* length of the reply of a DraftData that is encoded

(***************************************************************************)
(* Program constants.                                                      *)
(***************************************************************************)
ComposerTime == 4321
TypingTime   == 1234

Nil == [nil |-> TRUE]

(***************************************************************************)
(* Texts.                                                                  *)
(***************************************************************************)
IsSpace(c) == c \in {" ", "\n", "\t", "\r"}

RECURSIVE TrimLeft(_)
TrimLeft(s) ==
    IF s = <<>> THEN <<>>
    ELSE IF IsSpace(Head(s)) THEN TrimLeft(Tail(s)) ELSE s

RECURSIVE TrimRight(_)
TrimRight(s) ==
    IF s = <<>> THEN <<>>
    ELSE IF IsSpace(s[Len(s)]) THEN TrimRight(SubSeq(s, 1, Len(s) - 1)) ELSE s

\* bytes.TrimSpace / strings.TrimSpace
TrimSpace(s) == TrimRight(TrimLeft(s))

\* The raw text the server holds for the post (Discourse stores it trimmed
\* and non-empty), and the payloads of a draft it may hold for the topic.
RawTexts      == { <<"a">> }
DraftReplies  == { <<"a">>, <<"b", "\n">> }
DraftOrigs    == { <<"a">>, <<"b">> }
\* What the editor may leave in the file on a write: blank, the post's text
\* with other outer whitespace, another text.
EditorTexts   == { <<"\n">>, <<" ", "a", "\n">>, <<"b", "\n">> }

\* HTTP statuses the server answers with; 0 stands for a transport failure
\* (no response: network error or the 10 s client timeout).
Statuses == {0, 200, 401, 404, 409, 500}

\* An answer is a status and a body: "result" is JSON of the shape the caller
\* decodes, "errors" is JSON with an errors array, "garbage" is not JSON.
\* A 200 answer carries the resource or cannot be decoded.
Answers ==
    { [status |-> s, body |-> b] : s \in Statuses \ {0, 200},
                                   b \in {"errors", "garbage"} }
    \cup { [status |-> 200, body |-> b] : b \in {"result", "garbage"} }
    \cup { [status |-> 0, body |-> "garbage"] }

VARIABLES
    liveEdit, ignoreDraft, forceDraft,   \* command-line flags
    topic,          \* *Topic shared by run(), edit() and the watcher
    fgpc,           \* position of the foreground thread
    err,            \* run()'s err
    initial,        \* run()'s initial (line 149)
    filename,       \* "" or "tmp": what edit() returned / created
    different, empty, \* run()'s results of fileChanged
    deferred,       \* run() registered defer renameToLast(filename)
    tmp,            \* the temp file on disk: none, present, removed, renamed
    file,           \* content of the temp file
    mtime,          \* its modification time (number of editor writes)
    fileOK,         \* the file can be stat'ed and read
    editor,         \* editor process: idle, running, ok, failed
    wpc,            \* position of the watcher goroutine
    stop, done,     \* the two channels, TRUE once closed
    last, stat, curstat, text,  \* the watcher's variables
    acts,           \* calls made by the watcher in its current iteration
    requests,       \* save requests sent to the server, in order
    inflight,       \* requests sent and not yet answered
    wsent, fsent,   \* body of the call in progress in the watcher / in run()
    fails,          \* failing answers so far
    checks,         \* number of CheckDraft calls
    logmsg,         \* outcome line logged by run()
    exitCode,       \* process exit code, -1 while running
    wsOnly,         \* every editor write so far changed only outer whitespace
    topic0,         \* the topic as it was when run() called edit()
    dd, wire, loaded,   \* a DraftData, its encoding and what decoding gives
    resp, doerr     \* a response handed to do() and the error do() returns

vars == << liveEdit, ignoreDraft, forceDraft, topic, fgpc, err, initial,
           filename, different, empty, deferred, tmp, file, mtime, fileOK,
           editor, wpc, stop, done, last, stat, curstat, text, acts,
           requests, inflight, wsent, fsent, fails, checks, logmsg,
           exitCode, wsOnly, topic0, dd, wire, loaded, resp, doerr >>

flagVars == << liveEdit, ignoreDraft, forceDraft >>
runVars  == << err, initial, filename, different, empty, deferred, logmsg,
               exitCode, checks >>
fileVars == << tmp, file, mtime, fileOK, wsOnly >>
histVars == << topic0 >>
codecVars == << dd, wire, loaded >>
doVars   == << resp, doerr >>
watchVars == << wpc, done, last, stat, curstat, text, acts, wsent >>
netVars  == << requests, inflight, fails, fsent >>
fgVars   == << fgpc, err, initial, filename, different, empty, deferred,
               logmsg, exitCode, checks, fsent, stop >>

(***************************************************************************)
(* Entity model.                                                           *)
(***************************************************************************)
Post_EditText(p)      == p.Raw
Post_OriginalText(p)  == p.Raw
Draft_EditText(d)     == d.Data.Reply
Draft_OriginalText(d) == d.Data.OriginalText

Topic_EditText(t) ==
    IF t.Draft # Nil THEN Draft_EditText(t.Draft) ELSE Post_EditText(t.Post)

\* OriginalText that never looks at the draft.
Topic_OriginalText_PostOnly(t) == Post_OriginalText(t.Post)

Topic_OriginalText(t) ==
    IF t.Draft # Nil THEN Draft_OriginalText(t.Draft)
    ELSE Post_OriginalText(t.Post)

\* CheckDraft comparing the draft's reply, not its original text.
Topic_CheckDraft_Reply(t) ==
    t.Draft # Nil /\ Draft_EditText(t.Draft) # Post_OriginalText(t.Post)

\* CheckDraft: TRUE when it returns the conflict error.
Topic_CheckDraft(t) ==
    t.Draft # Nil /\ Draft_OriginalText(t.Draft) # Post_OriginalText(t.Post)

\* fileChanged comparing the texts as they are, without trimming.
fileChanged_Untrimmed(content, original) ==
    [different |-> content # original,
     empty     |-> Len(TrimSpace(content)) = 0]

\* fileChanged testing the length of the content as read, before trimming.
fileChanged_EmptyUntrimmed(content, original) ==
    LET trimmed == TrimSpace(content)
    IN  [different |-> trimmed # TrimSpace(original),
         empty     |-> Len(content) = 0]

\* fileChanged(filename, original) on a readable file with the given content.
fileChanged(content, original) ==
    LET trimmed == TrimSpace(content)
    IN  [different |-> trimmed # TrimSpace(original),
         empty     |-> Len(trimmed) = 0]

(***************************************************************************)
(* Remote client.                                                          *)
(***************************************************************************)
\* Forum.do with 401 left to the default case.
do_NotFound404Only(a) ==
    CASE a.status = 0            -> "transport"
      [] a.status = 200          -> IF a.body = "result" THEN "nil" ELSE "decode"
      [] a.status = 404          -> "notfound"
      [] a.status = 409          -> "conflict"
      [] OTHER                   -> IF a.body = "errors" THEN "servermsg"
                                    ELSE "status"

\* Forum.do: the error an answer is mapped to ("nil" for success).
do(a) ==
    CASE a.status = 0            -> "transport"
      [] a.status = 200          -> IF a.body = "result" THEN "nil" ELSE "decode"
      [] a.status \in {401, 404} -> "notfound"
      [] a.status = 409          -> "conflict"
      [] OTHER                   -> IF a.body = "errors" THEN "servermsg"
                                    ELSE "status"

\* isNotFound taking every error for a NotFoundError.
isNotFound_Any(e) == TRUE

isNotFound(e) == e = "notfound"

\* SaveTopic sending the topic's edit text as raw_old.
SaveTopicBody_OldIsEdit(t, content) ==
    [verb    |-> "PUT",
     raw     |-> TrimSpace(content),
     raw_old |-> Topic_EditText(t)]

\* Body of the PUT that SaveTopic sends.
SaveTopicBody(t, content) ==
    [verb    |-> "PUT",
     raw     |-> TrimSpace(content),
     raw_old |-> Topic_OriginalText(t)]

\* SaveTopic leaving the topic's draft in place.
SaveTopicDone_KeepDraft(t, raw, p) ==
    [t EXCEPT !.Post = [p EXCEPT !.Raw = raw],
              !.DraftSequence = p.DraftSequence]

\* The topic after SaveTopic got the post `p` back for its save of `raw`.
SaveTopicDone(t, raw, p) ==
    [t EXCEPT !.Post = [p EXCEPT !.Raw = raw],
              !.Draft = Nil,
              !.DraftSequence = p.DraftSequence]

\* A draft that records the edited content as its original text.
NewDraft_OriginalIsContent(t, content) ==
    [Key      |-> "topic",
     TopicID  |-> t.ID,
     Sequence |-> t.DraftSequence,
     Data     |-> [Reply        |-> content,
                   Action       |-> "edit",
                   Title        |-> t.Title,
                   ComposerTime |-> ComposerTime,
                   TypingTime   |-> TypingTime,
                   PostID       |-> t.Post.ID,
                   OriginalText |-> content,
                   Whisper      |-> FALSE]]

\* The Draft that SaveDraft builds and sends.
NewDraft(t, content) ==
    [Key      |-> "topic",
     TopicID  |-> t.ID,
     Sequence |-> t.DraftSequence,
     Data     |-> [Reply        |-> content,
                   Action       |-> "edit",
                   Title        |-> t.Title,
                   ComposerTime |-> ComposerTime,
                   TypingTime   |-> TypingTime,
                   PostID       |-> t.Post.ID,
                   OriginalText |-> Topic_OriginalText(t),
                   Whisper      |-> FALSE]]

SaveDraftBody(t, content) ==
    [verb |-> "POST", draft |-> NewDraft(t, content)]

\* The topic after SaveDraft got success "OK" and a sequence back.
SaveDraftDone(t, draft, seq) ==
    [t EXCEPT !.Draft = draft, !.DraftSequence = seq]

\* The topic after LoadDraft got `data` (Nil: no draft body) and a sequence.
LoadDraftDone(t, data, seq) ==
    [t EXCEPT !.DraftSequence = seq,
              !.Draft = IF data # Nil
                        THEN [Key |-> "topic", Sequence |-> seq,
                              TopicID |-> t.ID, Data |-> data]
                        ELSE t.Draft]

\* Topics and draft payloads the server may answer a load with.
ServerTopics ==
    { [ID |-> 1, Title |-> "t", DraftSequence |-> 0, Draft |-> Nil,
       Post |-> [ID |-> 1, Raw |-> r, DraftSequence |-> 0]]
      : r \in RawTexts }

\* The server counts the drafts of a topic: the sequence it answers a draft
\* load or a save with, given the one the client holds.
ServerSequence(s) == s + 1

ServerDraftData ==
    { [Reply |-> r, Action |-> "edit", Title |-> "t",
       ComposerTime |-> ComposerTime, TypingTime |-> TypingTime,
       PostID |-> 1, OriginalText |-> o, Whisper |-> FALSE]
      : r \in DraftReplies, o \in DraftOrigs }

(***************************************************************************)
(* Wire encoding of DraftData (encoding/json as MarshalJSON and            *)
(* UnmarshalJSON use it).  A JSON text is a sequence of tokens: one token  *)
(* per character, except that an object key, a number and a boolean are    *)
(* one token each (they hold nothing that is escaped).  In a Go string     *)
(* BadByte stands for a byte that is not valid UTF-8 and ReplacementRune   *)
(* for U+FFFD.                                                             *)
(***************************************************************************)
BadByte         == "xFF"
ReplacementRune == "uFFFD"
Quote           == "\""
Backslash       == "\\"

\* json.Marshal of one character of a string: the quote, the backslash and
\* the newline are escaped, "<" is written as \u003c, and a byte that is
\* not valid UTF-8 is written as \ufffd.
EncodeChar(c) ==
    CASE c = Quote     -> << Backslash, Quote >>
      [] c = Backslash -> << Backslash, Backslash >>
      [] c = "\n"      -> << Backslash, "n" >>
      [] c = "<"       -> << Backslash, "u", "0", "0", "3", "c" >>
      [] c = BadByte   -> << Backslash, "u", "f", "f", "f", "d" >>
      [] OTHER         -> << c >>

\* The characters of a string, each encoded, in their order.
RECURSIVE EncodeChars(_)
EncodeChars(str) ==
    IF str = <<>> THEN <<>>
    ELSE IF Len(str) = 1 THEN EncodeChar(str[1])
    ELSE LET half == Len(str) \div 2
         IN  EncodeChars(SubSeq(str, 1, half))
             \o EncodeChars(SubSeq(str, half + 1, Len(str)))

\* json.Marshal of a Go string
EncodeString(str) == << Quote >> \o EncodeChars(str) \o << Quote >>

\* The character a \uXXXX escape stands for.
Rune(hex) ==
    CASE hex = << "0", "0", "3", "c" >> -> "<"
      [] hex = << "f", "f", "f", "d" >> -> ReplacementRune

\* The character a two-character escape stands for.
Unescape(c) == IF c = "n" THEN "\n" ELSE c

\* The first position from i on that holds a quote or a backslash.
NextSpecial(js, i) ==
    CHOOSE k \in i..Len(js) :
        /\ js[k] \in { Quote, Backslash }
        /\ \A m \in i..(k - 1) : js[m] \notin { Quote, Backslash }

\* json.Unmarshal of a JSON string: js[i] is the first token after the
\* opening quote; the result is the string and the position after the
\* closing quote.  The characters up to the next quote or backslash stand
\* for themselves.
RECURSIVE ReadString(_, _, _)
ReadString(js, i, acc) ==
    LET k     == NextSpecial(js, i)
        plain == acc \o SubSeq(js, i, k - 1)
    IN  IF js[k] = Quote THEN [val |-> plain, next |-> k + 1]
        ELSE IF js[k + 1] = "u"
        THEN ReadString(js, k + 6,
                        Append(plain, Rune(SubSeq(js, k + 2, k + 5))))
        ELSE ReadString(js, k + 2, Append(plain, Unescape(js[k + 1])))

\* The numbers a DraftData of the model holds, and the decoding of one.
Numbers == {0, 1, 12, TypingTime, ComposerTime}
ParseInt(tok) == CHOOSE n \in Numbers : ToString(n) = tok

Member(key, value) == << Quote, key, Quote, ":" >> \o value

\* json.Marshal((*draftData)(dd)): the object with the fields in the order
\* of the struct, under the names of their json tags.
EncodeObject(d) ==
    << "{" >>
    \o Member("action", EncodeString(d.Action)) \o << "," >>
    \o Member("title", EncodeString(d.Title)) \o << "," >>
    \o Member("reply", EncodeString(d.Reply)) \o << "," >>
    \o Member("originalText", EncodeString(d.OriginalText)) \o << "," >>
    \o Member("composerTime", << ToString(d.ComposerTime) >>) \o << "," >>
    \o Member("typingTime", << ToString(d.TypingTime) >>) \o << "," >>
    \o Member("postId", << ToString(d.PostID) >>) \o << "," >>
    \o Member("whisper", << IF d.Whisper THEN "true" ELSE "false" >>)
    \o << "}" >>

\* The members of a JSON object: js[i] is the quote that opens a key; the
\* result maps each key to its value, a string or the token of a literal.
RECURSIVE ReadMembers(_, _, _)
ReadMembers(js, i, acc) ==
    LET key   == ReadString(js, i + 1, <<>>)
        j     == key.next + 1
        isStr == js[j] = Quote
        str   == ReadString(js, j + 1, <<>>)
        value == IF isStr THEN str.val ELSE js[j]
        k     == IF isStr THEN str.next ELSE j + 1
        more  == acc @@ (key.val[1] :> value)
    IN  IF js[k] = "," THEN ReadMembers(js, k + 1, more) ELSE more

\* json.Unmarshal([]byte(raw), (*draftData)(dd))
DecodeObject(js) ==
    LET m == ReadMembers(js, 2, << >>) IN
    [Action       |-> m["action"],
     Title        |-> m["title"],
     Reply        |-> m["reply"],
     OriginalText |-> m["originalText"],
     ComposerTime |-> ParseInt(m["composerTime"]),
     TypingTime   |-> ParseInt(m["typingTime"]),
     PostID       |-> ParseInt(m["postId"]),
     Whisper      |-> m["whisper"] = "true"]

\* A MarshalJSON that sends the object itself, encoded once.
DraftData_MarshalJSON_Once(d) == EncodeObject(d)

\* DraftData.MarshalJSON: the JSON of the object, encoded as a JSON string.
DraftData_MarshalJSON(d) == EncodeString(EncodeObject(d))

\* DraftData.UnmarshalJSON: the JSON string is decoded, and its value is
\* decoded as the object.  A text that is no JSON string is an error.
DraftData_UnmarshalJSON(data) ==
    IF data[1] # Quote THEN [error |-> "unmarshal"]
    ELSE DecodeObject(ReadString(data, 2, <<>>).val)

\* The strings of at most n characters over the set chars.
RECURSIVE Strings(_, _)
Strings(chars, n) ==
    IF n = 0 THEN { <<>> }
    ELSE LET shorter == Strings(chars, n - 1)
         IN  shorter \cup { Append(str, c) : str \in shorter, c \in chars }

\* The DraftData values that are encoded: replies with every character
\* that the encoding treats in its own way.
CodecChars == { "a", Quote, Backslash, "\n", "<", BadByte, ReplacementRune }

DraftDatas ==
    { [Action       |-> << "e", "d", "i", "t" >>,
       Title        |-> t,
       Reply        |-> r,
       OriginalText |-> o,
       ComposerTime |-> ct,
       TypingTime   |-> TypingTime,
       PostID       |-> id,
       Whisper      |-> w]
      : t \in { << "t" >>, << Quote >> },
        r \in Strings(CodecChars, MaxStr),
        o \in { <<>>, << "a", "\n" >>, << Backslash, Quote >> },
        ct \in { 0, ComposerTime },
        id \in { 1, 12 },
        w \in BOOLEAN }

(***************************************************************************)
(* Initial state: the process has parsed flags and configuration.          *)
(***************************************************************************)
Init ==
    /\ liveEdit \in BOOLEAN
    /\ ignoreDraft \in BOOLEAN
    /\ forceDraft \in BOOLEAN
    /\ topic = Nil
    /\ fgpc = "LoadTopic"
    /\ err = "nil"
    /\ initial = <<>>
    /\ filename = ""
    /\ different = FALSE
    /\ empty = FALSE
    /\ deferred = FALSE
    /\ tmp = "none"
    /\ file = <<>>
    /\ mtime = 0
    /\ fileOK = FALSE
    /\ editor = "idle"
    /\ wpc = "idle"
    /\ stop = FALSE
    /\ done = FALSE
    /\ last = FALSE
    /\ stat = 0
    /\ curstat = 0
    /\ text = <<>>
    /\ acts = <<>>
    /\ requests = <<>>
    /\ inflight = 0
    /\ wsent = Nil
    /\ fsent = Nil
    /\ fails = 0
    /\ checks = 0
    /\ logmsg = ""
    /\ exitCode = -1
    /\ wsOnly = TRUE
    /\ topic0 = Nil
    /\ dd = Nil /\ wire = <<>> /\ loaded = Nil
    /\ resp = Nil /\ doerr = ""

(***************************************************************************)
(* Foreground thread: run().                                               *)
(***************************************************************************)
\* run() returns e before edit() was called: no deferred call is pending,
\* main() reports the error and exits.
Fail(e) ==
    /\ err' = e
    /\ exitCode' = 1
    /\ fgpc' = "exit"

\* forum.LoadTopic(topicID)
LoadTopic ==
    /\ fgpc = "LoadTopic"
    /\ \E a \in Answers :
         IF do(a) # "nil"
         THEN /\ Fail(do(a))
              /\ UNCHANGED topic
         ELSE \/ /\ Fail("noposts")
                 /\ UNCHANGED topic
              \/ \E t \in ServerTopics :
                    /\ topic' = t
                    /\ fgpc' = IF ignoreDraft THEN "initial" ELSE "LoadDraft"
                    /\ UNCHANGED << err, exitCode >>
    /\ UNCHANGED << flagVars, codecVars, doVars, histVars, initial, filename, different, empty, deferred,
                    logmsg, checks, fileVars, editor, watchVars, stop,
                    netVars >>

\* forum.LoadDraft(topic) and the test of its error in run()
LoadDraft ==
    /\ fgpc = "LoadDraft"
    /\ \E a \in Answers :
         LET e == do(a) IN
         IF e # "nil"
         THEN IF isNotFound(e)
              THEN /\ err' = e
                   /\ fgpc' = "CheckDraft"
                   /\ UNCHANGED << topic, exitCode >>
              ELSE /\ Fail(e)
                   /\ UNCHANGED topic
         ELSE \E data \in ServerDraftData \cup {Nil} :
                /\ topic' = LoadDraftDone(topic, data,
                                          ServerSequence(topic.DraftSequence))
                /\ fgpc' = "CheckDraft"
                /\ UNCHANGED << err, exitCode >>
    /\ UNCHANGED << flagVars, codecVars, doVars, histVars, initial, filename, different, empty, deferred,
                    logmsg, checks, fileVars, editor, watchVars, stop,
                    netVars >>

\* err = topic.CheckDraft() and the -force-draft override: with the
\* override run() goes on, its err still holding the conflict until edit()
\* returns.
CheckDraft ==
    /\ fgpc = "CheckDraft"
    /\ checks' = checks + 1
    /\ IF Topic_CheckDraft(topic) /\ ~forceDraft
       THEN Fail("draftconflict")
       ELSE /\ err' = IF Topic_CheckDraft(topic) THEN "draftconflict"
                      ELSE "nil"
            /\ fgpc' = "initial"
            /\ UNCHANGED exitCode
    /\ UNCHANGED << flagVars, codecVars, doVars, histVars, topic, initial, filename, different, empty,
                    deferred, logmsg, fileVars, editor, watchVars, stop,
                    netVars >>

\* var initial = topic.OriginalText()
TakeInitial ==
    /\ fgpc = "initial"
    /\ initial' = Topic_OriginalText(topic)
    /\ topic0' = topic
    /\ fgpc' = "edit"
    /\ UNCHANGED << flagVars, codecVars, doVars, topic, err, filename, different, empty,
                    deferred, logmsg, exitCode, checks, fileVars, editor,
                    watchVars, stop, netVars >>

(***************************************************************************)
(* Foreground thread: edit().                                              *)
(***************************************************************************)
\* edit() returns (fn, e) to run().
EditReturn(fn, e) ==
    /\ filename' = fn
    /\ err' = e
    /\ fgpc' = "run_check"

\* edit() leaving the file in place when writing or closing it failed.
EditCreate_LeaveFile ==
    /\ fgpc = "edit"
    /\ text' = Topic_EditText(topic)
    /\ \/ /\ EditReturn("", "tmpfile")
          /\ UNCHANGED << tmp, file, fileOK >>
       \/ /\ EditReturn("", "tmpfile")
          /\ tmp' = "present"
          /\ UNCHANGED << file, fileOK >>
       \/ /\ tmp' = "present"
          /\ file' = Topic_EditText(topic)
          /\ fileOK' = TRUE
          /\ filename' = "tmp"
          /\ fgpc' = "edit_stat"
          /\ UNCHANGED err
    /\ UNCHANGED << flagVars, codecVars, doVars, histVars, topic, initial,
                    different, empty, deferred, logmsg, exitCode, checks,
                    mtime, wsOnly, editor, wpc, done, last, stat, curstat,
                    acts, wsent, stop, netVars >>

\* text := topic.EditText(); create, write and close the temporary file.
EditCreate ==
    /\ fgpc = "edit"
    /\ text' = Topic_EditText(topic)
    /\ \/ \* os.Create failed: there is no file
          /\ EditReturn("", "tmpfile")
          /\ UNCHANGED << tmp, file, fileOK >>
       \/ \* Write or Close failed: the file is removed again
          /\ EditReturn("", "tmpfile")
          /\ tmp' = "removed"
          /\ UNCHANGED << file, fileOK >>
       \/ /\ tmp' = "present"
          /\ file' = Topic_EditText(topic)
          /\ fileOK' = TRUE
          /\ filename' = "tmp"
          /\ fgpc' = "edit_stat"
          /\ UNCHANGED err
    /\ UNCHANGED << flagVars, codecVars, doVars, histVars, topic, initial, different, empty, deferred,
                    logmsg, exitCode, checks, mtime, wsOnly, editor, wpc,
                    done, last, stat, curstat, acts, wsent, stop, netVars >>

\* stat, err := os.Stat(filename); then the watcher goroutine is started and
\* cmd.Run() launches the editor.
EditStat ==
    /\ fgpc = "edit_stat"
    /\ \/ /\ EditReturn(filename, "stat")
          /\ UNCHANGED << stat, wpc, editor >>
       \/ /\ stat' = mtime
          /\ wpc' = "select"
          /\ editor' = "running"
          /\ fgpc' = "cmdRun"
          /\ UNCHANGED << filename, err >>
    /\ UNCHANGED << flagVars, codecVars, doVars, histVars, topic, initial, different, empty, deferred,
                    logmsg, exitCode, checks, fileVars, done, last, curstat,
                    text, acts, wsent, stop, netVars >>

\* cmd.Run() returned: with an error edit() returns at once; otherwise
\* close(stop).
CmdRunReturn ==
    /\ fgpc = "cmdRun"
    /\ editor \in {"ok", "failed"}
    /\ IF editor = "failed"
       THEN /\ EditReturn(filename, "editor")
            /\ UNCHANGED stop
       ELSE /\ stop' = TRUE
            /\ fgpc' = "waitDone"
            /\ UNCHANGED << filename, err >>
    /\ UNCHANGED << flagVars, codecVars, doVars, histVars, topic, initial, different, empty, deferred,
                    logmsg, exitCode, checks, fileVars, editor, watchVars,
                    netVars >>

\* edit() returning after close(stop) without receiving from done.
WaitDone_NoJoin ==
    /\ fgpc = "waitDone"
    /\ EditReturn(filename, "nil")
    /\ UNCHANGED << flagVars, codecVars, doVars, histVars, topic, initial, different, empty,
                    deferred, logmsg, exitCode, checks, fileVars, editor,
                    watchVars, stop, netVars >>

\* <-done; return filename, nil
WaitDone ==
    /\ fgpc = "waitDone"
    /\ done
    /\ EditReturn(filename, "nil")
    /\ UNCHANGED << flagVars, codecVars, doVars, histVars, topic, initial, different, empty, deferred,
                    logmsg, exitCode, checks, fileVars, editor, watchVars,
                    stop, netVars >>

(***************************************************************************)
(* Foreground thread: run() after edit() returned.                         *)
(***************************************************************************)
\* run() comparing the file with the topic's edit text.
ReconcileOriginal_EditText(t) == Topic_EditText(t)

\* run() comparing the file with the original text it took before edit().
ReconcileOriginal_Initial(t) == initial

\* The text run() hands to fileChanged after edit(): the topic's original
\* text as it is now, which live editing may have advanced.
ReconcileOriginal(t) == Topic_OriginalText(t)

\* run() logging "No changes to save." whatever was saved before.
Outcome_NoChangesOnly(live, init, t) == "No changes to save."

\* The outcome line with the test of the original text inverted.
Outcome_Inverted(live, init, t) ==
    IF live \/ init = Topic_OriginalText(t)
    THEN "Changes already saved."
    ELSE "No changes to save."

\* The line run() logs when the file holds nothing new.
Outcome(live, init, t) ==
    IF live /\ init # Topic_OriginalText(t)
    THEN "Changes already saved."
    ELSE "No changes to save."

\* Lines 153-176: fileChanged against the current original text when edit()
\* succeeded, the defer of renameToLast, and the three early returns.
RunCheck ==
    /\ fgpc = "run_check"
    /\ LET read == err = "nil" /\ fileOK
           fc   == fileChanged(file, ReconcileOriginal(topic))
           d    == read /\ fc.different
           em   == read /\ fc.empty
           e    == IF err = "nil" /\ ~fileOK THEN "readfile" ELSE err
       IN  /\ different' = d
           /\ empty' = em
           /\ deferred' = (filename # "" /\ d /\ ~em)
           /\ IF e # "nil"
              THEN /\ err' = e
                   /\ fgpc' = "run_return"
                   /\ UNCHANGED << tmp, logmsg >>
              ELSE IF em
              THEN /\ tmp' = "removed"
                   /\ err' = "nocontent"
                   /\ fgpc' = "run_return"
                   /\ UNCHANGED logmsg
              ELSE IF ~d
              THEN /\ logmsg' = Outcome(liveEdit, initial, topic)
                   /\ tmp' = "removed"
                   /\ fgpc' = "run_return"
                   /\ UNCHANGED err
              ELSE /\ fgpc' = "run_SaveTopic"
                   /\ UNCHANGED << tmp, logmsg, err >>
    /\ UNCHANGED << flagVars, codecVars, doVars, histVars, topic, initial, filename, exitCode, checks,
                    file, mtime, fileOK, wsOnly, editor, watchVars, stop,
                    netVars >>

\* forum.SaveTopic(topic, filename) in run(): read the file, send the PUT.
RunSaveTopicSend ==
    /\ fgpc = "run_SaveTopic"
    /\ IF ~fileOK
       THEN /\ err' = "readfile"
            /\ fgpc' = "run_return"
            /\ UNCHANGED << requests, inflight, fsent >>
       ELSE /\ fsent' = SaveTopicBody(topic, file)
            /\ requests' = Append(requests,
                                  [by |-> "run", body |-> SaveTopicBody(topic, file)])
            /\ inflight' = inflight + 1
            /\ fgpc' = "run_SaveTopicWait"
            /\ UNCHANGED err
    /\ UNCHANGED << flagVars, codecVars, doVars, histVars, topic, initial, filename, different, empty,
                    deferred, logmsg, exitCode, checks, fileVars, editor,
                    watchVars, stop, fails >>

\* run() sending the post update again when it was answered with a conflict.
RunSaveTopicRecv_RetryConflict ==
    /\ fgpc = "run_SaveTopicWait"
    /\ inflight' = inflight - 1
    /\ fsent' = Nil
    /\ \E a \in Answers :
         IF do(a) = "conflict"
         THEN /\ fgpc' = "run_SaveTopic"
              /\ UNCHANGED << topic, err >>
         ELSE IF do(a) # "nil"
         THEN /\ err' = do(a)
              /\ fgpc' = "run_return"
              /\ UNCHANGED topic
         ELSE /\ topic' = SaveTopicDone(topic, fsent.raw,
                              [topic.Post EXCEPT !.DraftSequence =
                                  ServerSequence(topic.DraftSequence)])
              /\ fgpc' = "run_return"
              /\ UNCHANGED err
    /\ UNCHANGED << flagVars, codecVars, doVars, histVars, initial, filename,
                    different, empty, deferred, logmsg, exitCode, checks,
                    fileVars, editor, watchVars, stop, requests, fails >>

\* The answer to run()'s PUT: SaveTopic updates the topic or returns the error.
RunSaveTopicRecv ==
    /\ fgpc = "run_SaveTopicWait"
    /\ inflight' = inflight - 1
    /\ fsent' = Nil
    /\ fgpc' = "run_return"
    /\ \E a \in Answers :
         IF do(a) # "nil"
         THEN /\ err' = do(a)
              /\ UNCHANGED topic
         ELSE /\ topic' = SaveTopicDone(topic, fsent.raw,
                              [topic.Post EXCEPT !.DraftSequence =
                                  ServerSequence(topic.DraftSequence)])
              /\ UNCHANGED err
    /\ UNCHANGED << flagVars, codecVars, doVars, histVars, initial, filename, different, empty, deferred,
                    logmsg, exitCode, checks, fileVars, editor, watchVars,
                    stop, requests, fails >>

\* run() returning without running the deferred renameToLast.
RunReturn_NoRename ==
    /\ fgpc = "run_return"
    /\ exitCode' = IF err = "nil" THEN 0 ELSE 1
    /\ fgpc' = "exit"
    /\ UNCHANGED << flagVars, codecVars, doVars, histVars, topic, err, initial,
                    filename, different, empty, deferred, logmsg, checks,
                    fileVars, editor, watchVars, stop, netVars >>

\* run() returns: the deferred renameToLast runs, main() sets the exit code.
\* The rename is within the directory the file was created in; were it to
\* fail, renameToLast only logs a warning.
RunReturn ==
    /\ fgpc = "run_return"
    /\ tmp' = IF deferred THEN "renamed" ELSE tmp
    /\ exitCode' = IF err = "nil" THEN 0 ELSE 1
    /\ fgpc' = "exit"
    /\ UNCHANGED << flagVars, codecVars, doVars, histVars, topic, err, initial, filename, different,
                    empty, deferred, logmsg, checks, file, mtime, fileOK,
                    wsOnly, editor, watchVars, stop, netVars >>

(***************************************************************************)
(* The editor process, running between cmd.Run()'s start and its return.   *)
(***************************************************************************)
\* The editor saves the buffer: new content and a new modification time.
EditorWrite ==
    /\ editor = "running"
    /\ mtime < MaxWrites
    /\ \E c \in EditorTexts :
         /\ file' = c
         /\ wsOnly' = (wsOnly /\ TrimSpace(c) = TrimSpace(file))
    /\ mtime' = mtime + 1
    /\ fileOK' = TRUE
    /\ UNCHANGED << flagVars, codecVars, doVars, histVars, topic, fgVars, tmp, editor, watchVars,
                    requests, inflight, fails >>

\* The editor removes the file or leaves it unreadable.
EditorUnlink ==
    /\ editor = "running"
    /\ fileOK
    /\ fileOK' = FALSE
    /\ UNCHANGED << flagVars, codecVars, doVars, histVars, topic, fgVars, tmp, file, mtime, wsOnly,
                    editor, watchVars, requests, inflight, fails >>

\* The editor exits with status 0.
EditorExit ==
    /\ editor = "running"
    /\ editor' = "ok"
    /\ UNCHANGED << flagVars, codecVars, doVars, histVars, topic, fgVars, fileVars, watchVars, requests,
                    inflight, fails >>

\* The editor cannot be launched or exits with an error.
EditorFail ==
    /\ editor = "running"
    /\ editor' = "failed"
    /\ UNCHANGED << flagVars, codecVars, doVars, histVars, topic, fgVars, fileVars, watchVars, requests,
                    inflight, fails >>

(***************************************************************************)
(* The watcher goroutine of edit().  It runs while the process does.       *)
(***************************************************************************)
Alive == fgpc # "exit"

\* A loop that goes on whatever last holds.
Continue_IgnoreLast ==
    /\ wpc' = "select"
    /\ UNCHANGED done

\* `continue`, or the end of the loop body: back to `for !last`; when the
\* loop ends the deferred close(done) runs.
Continue ==
    IF last
    THEN /\ wpc' = "returned"
         /\ done' = TRUE
    ELSE /\ wpc' = "select"
         /\ UNCHANGED done

\* A call of the current iteration returned e.
Called(op, e) == acts' = Append(acts, [op |-> op, err |-> e])

\* The call the watcher makes first for a detected change.
FirstCall(live) == IF live THEN "SaveTopic" ELSE "SaveDraft"

\* A watcher that saves the draft after every live edit, failed or not.
Fallback_Always(e) == TRUE

\* A watcher that gives up on a failed live edit without saving a draft.
Fallback_Never(e) == FALSE

\* After SaveTopic returned e in live-edit mode: the draft is saved when
\* e is an error.
Fallback(e) == e # "nil"

\* The watcher refreshing stat after a successful live edit, and keeping
\* the text it compares with.
AfterSaveTopic_KeepText(e, t) ==
    IF Fallback(e)
    THEN /\ wpc' = "SaveDraft"
         /\ UNCHANGED << stat, text, done >>
    ELSE /\ stat' = curstat
         /\ UNCHANGED text
         /\ Continue

\* The watcher going on after a successful live edit without refreshing
\* stat and text.
AfterSaveTopic_NoRefresh(e, t) ==
    IF Fallback(e)
    THEN /\ wpc' = "SaveDraft"
         /\ UNCHANGED << stat, text, done >>
    ELSE /\ UNCHANGED << stat, text >>
         /\ Continue

\* Lines 262-270 once SaveTopic returned e and left the topic as t: the
\* draft call follows, or stat and text are refreshed and the iteration ends.
AfterSaveTopic(e, t) ==
    IF Fallback(e)
    THEN /\ wpc' = "SaveDraft"
         /\ UNCHANGED << stat, text, done >>
    ELSE /\ stat' = curstat
         /\ text' = Topic_EditText(t)
         /\ Continue

\* A watcher that returns when saving the draft fails.
SaveDraftFailed_Return ==
    /\ wpc' = "returned"
    /\ done' = TRUE

\* Lines 264-267: SaveDraft returned an error; it is logged at debug level
\* and the loop continues.
SaveDraftFailed == Continue

\* select: case <-time.After(500 * time.Millisecond).  The timer of an
\* iteration is created when the select is entered, so once stop is closed
\* the stop case is the one that is ready.
WatchTick ==
    /\ Alive
    /\ wpc = "select"
    /\ ~stop
    /\ wpc' = "stat"
    /\ acts' = <<>>
    /\ UNCHANGED << flagVars, codecVars, doVars, histVars, topic, fgVars, fileVars, editor, done, last,
                    stat, curstat, text, wsent, requests, inflight, fails >>

\* select: case <-stop
WatchStop ==
    /\ Alive
    /\ wpc = "select"
    /\ stop
    /\ last' = TRUE
    /\ wpc' = "stat"
    /\ acts' = <<>>
    /\ UNCHANGED << flagVars, codecVars, doVars, histVars, topic, fgVars, fileVars, editor, done, stat,
                    curstat, text, wsent, requests, inflight, fails >>

\* curstat, err := os.Stat(filename) and the comparison of the times
WatchStat ==
    /\ Alive
    /\ wpc = "stat"
    /\ IF ~fileOK
       THEN /\ Continue
            /\ UNCHANGED curstat
       ELSE /\ curstat' = mtime
            /\ IF mtime = stat
               THEN Continue
               ELSE /\ wpc' = "compare"
                    /\ UNCHANGED done
    /\ UNCHANGED << flagVars, codecVars, doVars, histVars, topic, fgVars, fileVars, editor, last, stat,
                    text, acts, wsent, requests, inflight, fails >>

\* fileChanged(filename, text) and the choice of the call to make
WatchCompare ==
    /\ Alive
    /\ wpc = "compare"
    /\ LET fc == fileChanged(file, text) IN
       IF ~fileOK \/ ~fc.different \/ fc.empty
       THEN Continue
       ELSE /\ wpc' = FirstCall(liveEdit)
            /\ UNCHANGED done
    /\ UNCHANGED << flagVars, codecVars, doVars, histVars, topic, fgVars, fileVars, editor, last, stat,
                    curstat, text, acts, wsent, requests, inflight, fails >>

\* forum.SaveTopic(topic, filename) in the watcher: read the file, send.
WatchSaveTopicSend ==
    /\ Alive
    /\ wpc = "SaveTopic"
    /\ IF ~fileOK
       THEN /\ Called("SaveTopic", "readfile")
            /\ AfterSaveTopic("readfile", topic)
            /\ UNCHANGED << wsent, requests, inflight >>
       ELSE /\ wsent' = SaveTopicBody(topic, file)
            /\ requests' = Append(requests,
                              [by |-> "watcher", body |-> SaveTopicBody(topic, file)])
            /\ inflight' = inflight + 1
            /\ wpc' = "SaveTopicWait"
            /\ UNCHANGED << acts, stat, text, done >>
    /\ UNCHANGED << flagVars, codecVars, doVars, histVars, topic, fgVars, fileVars, editor, last,
                    curstat, fails >>

\* The answer to the watcher's PUT.  On an error the draft is tried; on
\* success stat and text are refreshed.
WatchSaveTopicRecv ==
    /\ Alive
    /\ wpc = "SaveTopicWait"
    /\ inflight' = inflight - 1
    /\ wsent' = Nil
    /\ \E a \in Answers :
         IF do(a) # "nil"
         THEN /\ fails < MaxFails
              /\ fails' = fails + 1
              /\ Called("SaveTopic", do(a))
              /\ AfterSaveTopic(do(a), topic)
              /\ UNCHANGED topic
         ELSE   LET t == SaveTopicDone(topic, wsent.raw,
                             [topic.Post EXCEPT !.DraftSequence =
                                 ServerSequence(topic.DraftSequence)])
                IN  /\ topic' = t
                    /\ Called("SaveTopic", "nil")
                    /\ AfterSaveTopic("nil", t)
                    /\ UNCHANGED fails
    /\ UNCHANGED << flagVars, codecVars, doVars, histVars, fgVars, fileVars, editor, last, curstat,
                    requests >>

\* forum.SaveDraft(topic, filename) in the watcher: read the file, send.
WatchSaveDraftSend ==
    /\ Alive
    /\ wpc = "SaveDraft"
    /\ IF ~fileOK
       THEN /\ Called("SaveDraft", "readfile")
            /\ SaveDraftFailed
            /\ UNCHANGED << wsent, requests, inflight >>
       ELSE /\ wsent' = SaveDraftBody(topic, file)
            /\ requests' = Append(requests,
                              [by |-> "watcher", body |-> SaveDraftBody(topic, file)])
            /\ inflight' = inflight + 1
            /\ wpc' = "SaveDraftWait"
            /\ UNCHANGED << acts, done >>
    /\ UNCHANGED << flagVars, codecVars, doVars, histVars, topic, fgVars, fileVars, editor, last, stat,
                    curstat, text, fails >>

\* SaveDraft installing the draft before it looks at the success field.
WatchSaveDraftRecv_InstallFirst ==
    /\ Alive
    /\ wpc = "SaveDraftWait"
    /\ inflight' = inflight - 1
    /\ wsent' = Nil
    /\ \E a \in Answers, success \in {"OK", ""} :
         LET e == IF do(a) # "nil" THEN do(a)
                  ELSE IF success # "OK" THEN "draftnotok" ELSE "nil"
             t == SaveDraftDone(topic, wsent.draft,
                                ServerSequence(topic.DraftSequence))
         IN
         IF e # "nil"
         THEN /\ fails < MaxFails
              /\ fails' = fails + 1
              /\ Called("SaveDraft", e)
              /\ SaveDraftFailed
              /\ topic' = IF e = "draftnotok" THEN t ELSE topic
              /\ UNCHANGED << stat, text >>
         ELSE /\ topic' = t
              /\ Called("SaveDraft", "nil")
              /\ stat' = curstat
              /\ text' = Topic_EditText(t)
              /\ Continue
              /\ UNCHANGED fails
    /\ UNCHANGED << flagVars, codecVars, doVars, histVars, fgVars, fileVars,
                    editor, last, curstat, requests >>

\* The answer to the watcher's POST: an error of do(), a success field other
\* than "OK", or the draft is installed and stat and text are refreshed.
WatchSaveDraftRecv ==
    /\ Alive
    /\ wpc = "SaveDraftWait"
    /\ inflight' = inflight - 1
    /\ wsent' = Nil
    /\ \E a \in Answers, success \in {"OK", ""} :
         LET e == IF do(a) # "nil" THEN do(a)
                  ELSE IF success # "OK" THEN "draftnotok" ELSE "nil"
         IN
         IF e # "nil"
         THEN /\ fails < MaxFails
              /\ fails' = fails + 1
              /\ Called("SaveDraft", e)
              /\ SaveDraftFailed
              /\ UNCHANGED << topic, stat, text >>
         ELSE   LET t == SaveDraftDone(topic, wsent.draft,
                                          ServerSequence(topic.DraftSequence))
                IN  /\ topic' = t
                    /\ Called("SaveDraft", "nil")
                    /\ stat' = curstat
                    /\ text' = Topic_EditText(t)
                    /\ Continue
                    /\ UNCHANGED fails
    /\ UNCHANGED << flagVars, codecVars, doVars, histVars, fgVars, fileVars, editor, last, curstat,
                    requests >>

(***************************************************************************)
(* The session.                                                            *)
(***************************************************************************)
Next ==
    \/ LoadTopic
    \/ LoadDraft
    \/ CheckDraft
    \/ TakeInitial
    \/ EditCreate
    \/ EditStat
    \/ CmdRunReturn
    \/ WaitDone
    \/ RunCheck
    \/ RunSaveTopicSend
    \/ RunSaveTopicRecv
    \/ RunReturn
    \/ EditorWrite
    \/ EditorUnlink
    \/ EditorExit
    \/ EditorFail
    \/ WatchTick
    \/ WatchStop
    \/ WatchStat
    \/ WatchCompare
    \/ WatchSaveTopicSend
    \/ WatchSaveTopicRecv
    \/ WatchSaveDraftSend
    \/ WatchSaveDraftRecv

Spec == Init /\ [][Next]_vars

\* The steps of the foreground thread and those of the watcher goroutine.
Foreground ==
    \/ LoadTopic \/ LoadDraft \/ CheckDraft \/ TakeInitial
    \/ EditCreate \/ EditStat \/ CmdRunReturn \/ WaitDone
    \/ RunCheck \/ RunSaveTopicSend \/ RunSaveTopicRecv \/ RunReturn

Watcher ==
    \/ WatchTick \/ WatchStop \/ WatchStat \/ WatchCompare
    \/ WatchSaveTopicSend \/ WatchSaveTopicRecv
    \/ WatchSaveDraftSend \/ WatchSaveDraftRecv

\* The Go scheduler runs a goroutine that can take a step, and every request
\* is answered or ends at the client's 10 s timeout.  Nothing is assumed of
\* the editor, which the operator may leave open for ever.
FairSpec == Spec /\ WF_vars(Foreground) /\ WF_vars(Watcher)

(***************************************************************************)
(* The draft payload on its own: a DraftData is encoded as SaveDraft sends *)
(* it and the result decoded as LoadDraft receives it.                     *)
(***************************************************************************)
sessionVars == << liveEdit, ignoreDraft, forceDraft, topic, fgpc, err,
                  initial, filename, different, empty, deferred, tmp, file,
                  mtime, fileOK, editor, wpc, stop, done, last, stat,
                  curstat, text, acts, requests, inflight, wsent, fsent,
                  fails, checks, logmsg, exitCode, wsOnly, topic0 >>

\* No session is running.
NoSession ==
    /\ liveEdit = FALSE /\ ignoreDraft = FALSE /\ forceDraft = FALSE
    /\ topic = Nil /\ fgpc = "exit" /\ err = "nil" /\ initial = <<>>
    /\ filename = "" /\ different = FALSE /\ empty = FALSE
    /\ deferred = FALSE /\ tmp = "none" /\ file = <<>> /\ mtime = 0
    /\ fileOK = FALSE /\ editor = "idle" /\ wpc = "idle"
    /\ stop = FALSE /\ done = FALSE /\ last = FALSE /\ stat = 0
    /\ curstat = 0 /\ text = <<>> /\ acts = <<>> /\ requests = <<>>
    /\ inflight = 0 /\ wsent = Nil /\ fsent = Nil /\ fails = 0
    /\ checks = 0 /\ logmsg = "" /\ exitCode = -1 /\ wsOnly = TRUE
    /\ topic0 = Nil

CodecInit ==
    /\ NoSession
    /\ dd \in DraftDatas
    /\ wire = <<>>
    /\ loaded = Nil
    /\ resp = Nil /\ doerr = ""

\* json.Marshal of the draft calls dd.MarshalJSON()
MarshalJSON ==
    /\ wire = <<>>
    /\ wire' = DraftData_MarshalJSON(dd)
    /\ UNCHANGED << sessionVars, doVars, dd, loaded >>

\* json.Unmarshal of the answer calls dd.UnmarshalJSON(data)
UnmarshalJSON ==
    /\ wire # <<>>
    /\ loaded = Nil
    /\ loaded' = DraftData_UnmarshalJSON(wire)
    /\ UNCHANGED << sessionVars, doVars, dd, wire >>

CodecNext == MarshalJSON \/ UnmarshalJSON

CodecSpec == CodecInit /\ [][CodecNext]_vars

(***************************************************************************)
(* Forum.do on its own: one response to one request.                       *)
(***************************************************************************)
\* The requests of the program are a GET (LoadTopic, LoadDraft), a POST
\* (SaveDraft) and a PUT (SaveTopic).
Verbs == { "GET", "POST", "PUT" }

\* Statuses of a response, those of Statuses and others that get no case of
\* their own in do().
DoStatuses == Statuses \cup { 201, 301, 400, 403, 422, 429, 502, 503 }

Responses ==
    { [verb |-> v, status |-> a.status, body |-> a.body]
      : v \in Verbs,
        a \in Answers \cup
              { [status |-> st, body |-> b]
                : st \in DoStatuses \ Statuses, b \in {"errors", "garbage"} } }

DoInit ==
    /\ NoSession
    /\ dd = Nil /\ wire = <<>> /\ loaded = Nil
    /\ resp \in Responses
    /\ doerr = ""

\* f.do(verb, path, body, &result) returns
DoReturn ==
    /\ doerr = ""
    /\ doerr' = do(resp)
    /\ UNCHANGED << sessionVars, codecVars, resp >>

DoSpec == DoInit /\ [][DoReturn]_vars

(***************************************************************************)
(* Properties.                                                             *)
(***************************************************************************)
WatcherRequests == SelectSeq(requests, LAMBDA r : r.by = "watcher")
RunRequests     == SelectSeq(requests, LAMBDA r : r.by = "run")

\* edit() has returned to run().
EditReturned ==
    fgpc \in {"run_check", "run_SaveTopic", "run_SaveTopicWait",
              "run_return", "exit"}

\* The foreground thread is at a point where it reads or writes the topic:
\* the reconciliation after a successful edit(), or the final SaveTopic.
FgTouchesTopic ==
    \/ fgpc = "run_check" /\ err = "nil"
    \/ fgpc \in {"run_SaveTopic", "run_SaveTopicWait"}

\* C1: whenever the editor has terminated, successfully or with an error,
\* edit() has returned only after the stop signal was sent and the watcher
\* signalled completion.
C1_JoinOnEveryEditorExit ==
    (editor \in {"ok", "failed"} /\ EditReturned) => (stop /\ done)

\* C2: the foreground thread touches the topic only after the watcher's
\* completion signal; once that signal is sent the watcher takes no step,
\* sends nothing and the topic changes only by run()'s own final save; and
\* while the watcher runs the topic changes only by an answer to a request
\* of the watcher.
C2_Handoff ==
    /\ [](FgTouchesTopic => done)
    /\ [][done => /\ wpc' = wpc
                  /\ wsent' = wsent
                  /\ WatcherRequests' = WatcherRequests
                  /\ (topic' # topic => fgpc = "run_SaveTopicWait")]_vars
    /\ [][(wpc \notin {"idle", "returned"} /\ topic' # topic)
            => wpc \in {"SaveTopicWait", "SaveDraftWait"}]_vars

\* C2 witness: run()'s final save is in flight after the watcher, which
\* sent requests of its own, has signalled completion.
C2_Witness ==
    /\ done
    /\ fgpc = "run_SaveTopicWait"
    /\ Len(WatcherRequests) > 0

\* The topic's current original text, as the specification words it: the
\* draft's original text when a draft is present, else the post's raw text.
CurrentOriginal(t) ==
    IF t.Draft # Nil THEN t.Draft.Data.OriginalText ELSE t.Post.Raw

\* The topic's current edit text, worded the same way.
CurrentEdit(t) ==
    IF t.Draft # Nil THEN t.Draft.Data.Reply ELSE t.Post.Raw

\* run() is at the reconciliation after a successful edit() and can read
\* the file.
Reconciling == fgpc = "run_check" /\ err = "nil" /\ fileOK

\* The file holds a real change against the text `original`.
RealChange(original) ==
    /\ TrimSpace(file) # <<>>
    /\ TrimSpace(file) # TrimSpace(original)

\* The one request of run(): a post update carrying the trimmed file.
IsFinalSave(r) ==
    /\ r.by = "run"
    /\ r.body.verb = "PUT"
    /\ r.body.raw = TrimSpace(file)

\* C3: at reconciliation run() goes on to the final save exactly when the
\* trimmed file is non-empty and differs from the trimmed current original
\* text; that save sends one request, a post update carrying the trimmed
\* file, and run() sends no other request, no draft save, before or after.
C3_FinalSave ==
    /\ [][(Reconciling /\ fgpc' # fgpc) =>
            ((fgpc' = "run_SaveTopic") <=> RealChange(CurrentOriginal(topic)))]_vars
    /\ [][(fgpc = "run_SaveTopic" /\ fgpc' # fgpc) =>
            /\ Len(requests') = Len(requests) + 1
            /\ IsFinalSave(requests'[Len(requests')])]_vars
    /\ [][(fgpc # "run_SaveTopic" \/ fgpc' = fgpc) =>
            RunRequests' = RunRequests]_vars
    /\ [](fgpc = "run_check" => RunRequests = <<>>)
    /\ [](Len(RunRequests) <= 1)

\* C3 witness: the session ended with the final save after live editing had
\* already pushed a change from the watcher.
C3_Witness ==
    /\ fgpc = "exit"
    /\ err = "nil"
    /\ liveEdit
    /\ fails = 0
    /\ Len(WatcherRequests) >= 1
    /\ Len(RunRequests) = 1

\* run() has returned from a reconciliation that could read the file.
Reconciled ==
    /\ fgpc \in {"run_return", "exit"}
    /\ editor = "ok"
    /\ fileOK

\* C4: a file that is empty after trimming at the final reconciliation ends
\* the session with the "no content" error, without a request of run() and
\* with the temp file removed (not renamed), whatever was saved before.
C4_EmptyAborts ==
    (Reconciled /\ TrimSpace(file) = <<>>) =>
        /\ err = "nocontent"
        /\ RunRequests = <<>>
        /\ tmp = "removed"
        /\ ~deferred
        /\ (fgpc = "exit" => exitCode = 1)

\* C4 witness: the session ended on a blank file after the watcher had
\* pushed a live edit.
C4_Witness ==
    /\ fgpc = "exit"
    /\ Reconciled
    /\ TrimSpace(file) = <<>>
    /\ liveEdit
    /\ fails = 0
    /\ Len(WatcherRequests) >= 1

\* The watcher has no iteration in progress.
BetweenIterations == wpc \in {"idle", "select", "returned"}

\* The calls of the watcher's current iteration, in their order, and the
\* verbs of the requests it has sent.
C5_State ==
    /\ Len(acts) <= 2
    /\ liveEdit =>
         /\ (acts # <<>> => acts[1].op = "SaveTopic")
         /\ (Len(acts) = 2 => acts[1].err # "nil" /\ acts[2].op = "SaveDraft")
         /\ (wpc \in {"SaveTopic", "SaveTopicWait"} => acts = <<>>)
         /\ (wpc \in {"SaveDraft", "SaveDraftWait"} =>
                Len(acts) = 1 /\ acts[1].err # "nil")
         /\ (BetweenIterations /\ Len(acts) = 1 => acts[1].err = "nil")
    /\ ~liveEdit =>
         /\ Len(acts) <= 1
         /\ (acts # <<>> => acts[1].op = "SaveDraft")
         /\ wpc \notin {"SaveTopic", "SaveTopicWait"}
         /\ \A i \in 1..Len(requests) :
               requests[i].by = "watcher" => requests[i].body.verb = "POST"

\* C5: for a detected change the watcher calls SaveTopic first in live-edit
\* mode and then SaveDraft if and only if SaveTopic returned an error;
\* without live-edit it calls SaveDraft only and never sends a post update.
C5_PostThenDraftOnFailure ==
    /\ []C5_State
    /\ [][(wpc = "compare" /\ wpc' # wpc /\ fileOK /\ RealChange(text)) =>
            wpc' = (IF liveEdit THEN "SaveTopic" ELSE "SaveDraft")]_vars

\* C5 witness: in live-edit mode the post save failed and the draft save
\* that followed succeeded.
C5_Witness ==
    /\ liveEdit
    /\ Len(acts) = 2
    /\ acts[1].op = "SaveTopic" /\ acts[1].err # "nil"
    /\ acts[2].op = "SaveDraft" /\ acts[2].err = "nil"

\* The session of the scenario has ended: it began without a draft and
\* without live-edit, the editor wrote the file once, leaving a non-empty
\* text that differs from the post's raw text, and exited successfully.
C6_Scenario ==
    /\ fgpc = "exit"
    /\ topic0 # Nil
    /\ topic0.Draft = Nil
    /\ ~liveEdit
    /\ editor = "ok"
    /\ mtime = 1
    /\ fileOK
    /\ RealChange(topic0.Post.Raw)

\* A draft save with the file's content as reply and the post's raw text of
\* the session's start as original text.
IsDraftSaveOfFile(r) ==
    /\ r.body.verb = "POST"
    /\ r.body.draft.Data.Reply = file
    /\ r.body.draft.Data.OriginalText = topic0.Post.Raw

\* C6 as stated: in the scenario exactly one draft save is sent and no post
\* update.
C6_Original ==
    C6_Scenario =>
        /\ Len(requests) = 1
        /\ IsDraftSaveOfFile(requests[1])

\* C6 (amended): in the scenario the watcher sends draft saves only, each
\* with the file's content as reply and the post's raw text as original
\* text, at least one and exactly one when none fails; and the final
\* reconciliation sends exactly one post update, with the trimmed content
\* as raw and the post's raw text as raw_old.
C6_Amended ==
    C6_Scenario =>
        /\ Len(WatcherRequests) >= 1
        /\ \A i \in 1..Len(WatcherRequests) :
              IsDraftSaveOfFile(WatcherRequests[i])
        /\ (fails = 0 => Len(WatcherRequests) = 1)
        /\ Len(RunRequests) = 1
        /\ RunRequests[1].body = [verb    |-> "PUT",
                                  raw     |-> TrimSpace(file),
                                  raw_old |-> topic0.Post.Raw]

\* C6 witness: the scenario ended with one draft save and the final post
\* update, both answered with success.
C6_Witness ==
    /\ C6_Scenario
    /\ fails = 0
    /\ err = "nil"
    /\ Len(requests) = 2

\* The editor has written the file, and every write left a text equal,
\* after trimming, to the text the file was created with.
WhitespaceOnlySession == wsOnly /\ mtime >= 1

\* The session began on a draft whose reply differs, after trimming, from
\* its original text.
PendingDraft0 ==
    /\ topic0 # Nil
    /\ topic0.Draft # Nil
    /\ TrimSpace(topic0.Draft.Data.Reply) #
           TrimSpace(topic0.Draft.Data.OriginalText)

\* C7 as stated: whitespace-only changes of the file never lead to a save
\* request, by the watcher or at reconciliation, whatever the topic held.
C7_Original == WhitespaceOnlySession => requests = <<>>

\* C7 (amended): whitespace-only changes of the file never lead to a save
\* request of the watcher; run() sends none at reconciliation either,
\* unless the session began on a draft whose reply differs, after trimming,
\* from its original text.
C7_Amended ==
    WhitespaceOnlySession =>
        /\ WatcherRequests = <<>>
        /\ (RunRequests # <<>> => PendingDraft0)

\* C7 witness: a session on a loaded draft ended after the editor changed
\* the outer whitespace of the file, and nothing was sent.
C7_Witness ==
    /\ WhitespaceOnlySession
    /\ fgpc = "exit"
    /\ editor = "ok"
    /\ fileOK
    /\ topic0.Draft # Nil
    /\ file # CurrentEdit(topic0)
    /\ requests = <<>>

\* C8: in a session begun without a draft and without live-edit, as long as
\* the editor has not written the file no save request is sent; and when the
\* editor exits successfully the session ends with "No changes to save.",
\* no error, exit code 0 and the temp file removed.
C8_NoChange ==
    (topic0 # Nil /\ topic0.Draft = Nil /\ ~liveEdit /\ mtime = 0) =>
        /\ requests = <<>>
        /\ (fgpc = "exit" /\ editor = "ok" /\ fileOK) =>
              /\ err = "nil"
              /\ exitCode = 0
              /\ logmsg = "No changes to save."
              /\ tmp = "removed"

\* C8 witness: such a session has ended.
C8_Witness ==
    /\ topic0 # Nil /\ topic0.Draft = Nil /\ ~liveEdit /\ mtime = 0
    /\ fgpc = "exit" /\ editor = "ok" /\ fileOK
    /\ wpc = "returned"

\* A draft is loaded whose original text differs from the post's raw text.
DraftConflict(t) ==
    t.Draft # Nil /\ t.Draft.Data.OriginalText # t.Post.Raw

\* What the flags, the number of checks and the conflict error imply.
C9_State ==
    /\ checks <= 1
    /\ ignoreDraft =>
         /\ checks = 0
         /\ (topic0 # Nil => topic0.Draft = Nil)
         /\ (topic # Nil /\ wpc = "idle" => topic.Draft = Nil)
    /\ (~ignoreDraft /\ checks = 0) =>
         /\ fgpc \in {"LoadTopic", "LoadDraft", "CheckDraft", "exit"}
         /\ topic0 = Nil /\ tmp = "none" /\ editor = "idle"
    /\ (~ignoreDraft /\ fgpc = "initial") =>
         /\ checks = 1
         /\ (DraftConflict(topic) => forceDraft)
    /\ (err = "draftconflict" /\ ~forceDraft) =>
         /\ fgpc = "exit" /\ exitCode = 1
         /\ DraftConflict(topic)
         /\ topic0 = Nil /\ tmp = "none" /\ editor = "idle" /\ wpc = "idle"
         /\ requests = <<>>

\* C9: without -ignore-draft the conflict check runs once, after the draft
\* load and before the temp file and the editor exist, and changes nothing;
\* it ends the session with the conflict error exactly when a draft is
\* loaded whose original text differs from the post's raw text and
\* -force-draft is not set, and then no file was created, no editor opened
\* and nothing sent.  With -ignore-draft there is no draft and no check.
C9_ConflictCheck ==
    /\ []C9_State
    /\ [][(fgpc = "CheckDraft" /\ fgpc' # fgpc) =>
            /\ topic' = topic
            /\ requests' = requests
            /\ tmp' = tmp
            /\ (fgpc' = "exit" <=> (DraftConflict(topic) /\ ~forceDraft))
            /\ (fgpc' = "exit" => err' = "draftconflict")]_vars

\* C9 witness: the session ended with the conflict error.
C9_Witness == fgpc = "exit" /\ err = "draftconflict"

\* C10: EditText and OriginalText are the draft's reply and original text
\* when the topic has a draft and the post's raw text otherwise; run() and
\* edit() obtain exactly these texts, and obtaining them changes nothing.
C10_Baseline ==
    /\ [](topic # Nil =>
            /\ Topic_EditText(topic) = CurrentEdit(topic)
            /\ Topic_OriginalText(topic) = CurrentOriginal(topic)
            /\ (topic.Draft = Nil =>
                  /\ Topic_EditText(topic) = topic.Post.Raw
                  /\ Topic_OriginalText(topic) = topic.Post.Raw))
    /\ [](fgpc = "edit" => initial = CurrentOriginal(topic))
    /\ [](fgpc = "edit_stat" => text = CurrentEdit(topic) /\ file = text)
    /\ [][(fgpc \in {"initial", "edit"}) => (topic' = topic)]_vars

\* C10 witness: edit() has written the temp file from a draft whose reply,
\* original text and the post's raw text are not all the same.
C10_Witness ==
    /\ fgpc = "edit_stat"
    /\ topic.Draft # Nil
    /\ topic.Draft.Data.Reply # topic.Draft.Data.OriginalText
    /\ topic.Draft.Data.OriginalText # topic.Post.Raw

\* A step in which a call of SaveTopic, in the watcher or in run(), returns
\* without an error.
SaveTopicSucceeds ==
    \/ /\ wpc = "SaveTopicWait" /\ wpc' # wpc
       /\ acts' = Append(acts, [op |-> "SaveTopic", err |-> "nil"])
    \/ /\ fgpc = "run_SaveTopicWait" /\ fgpc' # fgpc
       /\ err' = "nil"

\* A step in which the watcher's call of SaveDraft returns without an error.
SaveDraftSucceeds ==
    /\ wpc = "SaveDraftWait" /\ wpc' # wpc
    /\ acts' = Append(acts, [op |-> "SaveDraft", err |-> "nil"])

\* C11: the topic holds no draft or one draft, which is keyed to the topic;
\* every successful SaveTopic leaves the topic without a draft; and once a
\* save request was sent, only a successful SaveDraft gives a topic without
\* a draft a draft again (LoadDraft runs before any save).
C11_DraftCleared ==
    /\ [](topic # Nil =>
            \/ topic.Draft = Nil
            \/ /\ topic.Draft.TopicID = topic.ID
               /\ topic.Draft.Data # Nil)
    /\ [](fgpc \in {"LoadTopic", "LoadDraft"} => requests = <<>>)
    /\ [][SaveTopicSucceeds => topic'.Draft = Nil]_vars
    /\ [][(topic # Nil /\ topic.Draft = Nil /\ topic'.Draft # Nil) =>
            \/ fgpc = "LoadDraft" /\ fgpc' = "CheckDraft"
            \/ SaveDraftSucceeds]_vars

\* C11 witness: a session that began on a loaded draft holds none after a
\* post save of the watcher succeeded.
C11_Witness ==
    /\ topic0 # Nil /\ topic0.Draft # Nil
    /\ topic.Draft = Nil
    /\ acts = << [op |-> "SaveTopic", err |-> "nil"] >>

\* A step in which a save call of the watcher returns an error.
WatcherSaveFails ==
    /\ wpc \in {"SaveTopic", "SaveTopicWait", "SaveDraft", "SaveDraftWait"}
    /\ Len(acts') = Len(acts) + 1
    /\ acts'[Len(acts')].err # "nil"

\* The watcher's positions in the order of its loop body.
WatchPos(p) ==
    CASE p = "idle"          -> 0
      [] p = "select"        -> 1
      [] p = "stat"          -> 2
      [] p = "compare"       -> 3
      [] p = "SaveTopic"     -> 4
      [] p = "SaveTopicWait" -> 5
      [] p = "SaveDraft"     -> 6
      [] p = "SaveDraftWait" -> 7
      [] p = "returned"      -> 8

\* Under fair scheduling the watcher at its select goes on to its next
\* iteration while the process lives, and once the editor has exited
\* successfully the session reaches the reconciliation (FairSpec).
ReachesReconciliation ==
    /\ ((wpc = "select" /\ Alive) ~> (wpc = "stat" \/ ~Alive))
    /\ ((editor = "ok" /\ fgpc = "cmdRun") ~>
            (fgpc = "run_check" /\ err = "nil" /\ done))

\* C12: a save call of the watcher that fails changes nothing of the
\* foreground thread (no error, no exit, no stop) and leaves the watcher in
\* its loop: at the draft fallback, or back at the select, or returned with
\* done closed when this was the last iteration.  The watcher returns only
\* in the iteration that saw stop closed; while the process lives it can
\* always take its next step, each step takes it forward in the loop body or
\* back to the select, and the select with stop closed starts the last
\* iteration.  The foreground thread can always return from cmd.Run() once
\* the editor exited, and from <-done once done is closed, and then it is
\* at the reconciliation without an error.
C12_FailureContinues ==
    /\ [][WatcherSaveFails =>
            /\ UNCHANGED << fgpc, err, exitCode, stop, filename >>
            /\ \/ wpc = "SaveTopicWait" /\ wpc' = "SaveDraft"
               \/ wpc = "SaveTopic" /\ wpc' = "SaveDraft"
               \/ ~last /\ wpc' = "select" /\ ~done'
               \/ last /\ wpc' = "returned" /\ done']_vars
    /\ [](done <=> wpc = "returned")
    /\ [](wpc = "returned" => (last /\ stop))
    /\ []((Alive /\ wpc \notin {"idle", "returned"}) => ENABLED Watcher)
    /\ [][(wpc' # wpc) =>
            \/ WatchPos(wpc') > WatchPos(wpc)
            \/ ~last /\ wpc' = "select"]_vars
    /\ [][(wpc = "select" /\ stop /\ wpc' # wpc) => last']_vars
    /\ []((fgpc = "cmdRun" /\ editor = "ok") => ENABLED CmdRunReturn)
    /\ []((fgpc = "waitDone" /\ done) => ENABLED WaitDone)
    /\ [][(fgpc = "waitDone" /\ fgpc' # fgpc) =>
            (fgpc' = "run_check" /\ err' = "nil")]_vars

\* C12 witness: the session is at the reconciliation after a save of the
\* watcher failed.
C12_Witness ==
    /\ fails >= 1
    /\ fgpc = "run_check" /\ err = "nil" /\ done
    /\ editor = "ok"

\* A post save of the watcher's current iteration returned the conflict
\* error, which is what do() makes of a 409.
WatcherConflict ==
    /\ acts # <<>>
    /\ acts[1] = [op |-> "SaveTopic", err |-> "conflict"]

\* C13 as stated: a post update answered with 409 is followed by no draft
\* save, whoever sent it.
C13_Original ==
    WatcherConflict =>
        /\ Len(acts) = 1
        /\ wpc \notin {"SaveDraft", "SaveDraftWait"}

\* C13 (amended): when the post update of the final save is answered with
\* 409, run() returns the conflict error at once: the session, which got as
\* far as editing, ends with it and exit code 1, the update was sent once
\* and run() sends nothing else.
\* In the watcher a post update answered with 409 is followed by the draft
\* fallback, like any other failure.
C13_Amended ==
    /\ []((err = "conflict" /\ topic0 # Nil) =>
            /\ fgpc \in {"run_return", "exit"}
            /\ (fgpc = "exit" => exitCode = 1)
            /\ Len(RunRequests) = 1
            /\ RunRequests[1].body.verb = "PUT"
            /\ fsent = Nil)
    /\ [][(fgpc = "run_SaveTopicWait" /\ fgpc' # fgpc) =>
            /\ fgpc' = "run_return"
            /\ requests' = requests]_vars
    /\ [][(fgpc = "run_return" /\ err = "conflict") =>
            UNCHANGED << err, requests, topic >>]_vars
    /\ [](WatcherConflict =>
            /\ (Len(acts) = 1 => wpc \in {"SaveDraft", "SaveDraftWait"})
            /\ (Len(acts) = 2 => acts[2].op = "SaveDraft"))

\* C13 witness: the session ended with the conflict error of the final
\* save, after the watcher had a conflict of its own and saved the draft.
C13_Witness ==
    /\ fgpc = "exit"
    /\ err = "conflict"
    /\ exitCode = 1
    /\ acts = << [op |-> "SaveTopic", err |-> "conflict"],
                 [op |-> "SaveDraft", err |-> "nil"] >>

\* The session has ended with an error while the file the editor wrote
\* holds a real edit against the topic's current original text.
FailedWithRealEdit ==
    /\ fgpc = "exit"
    /\ err # "nil"
    /\ filename # ""
    /\ mtime >= 1
    /\ fileOK
    /\ RealChange(CurrentOriginal(topic))

\* C14: a session that ends with an error while the edited file holds a
\* real edit has renamed the temporary file to the backup path, whether the
\* final save failed or the editor exited with an error.
C14_BackupOnFailure == FailedWithRealEdit => tmp = "renamed"

\* run() is past the load phase and has not yet got an error from edit().
PastLoading == fgpc \in {"CheckDraft", "initial", "edit"}

\* C15 as stated: run() gets past the load phase only when no load returned
\* an error, NotFound included; the one error it may go on with is the
\* draft conflict under -force-draft.
C15_Original ==
    (PastLoading /\ err # "nil") => (err = "draftconflict" /\ forceDraft)

\* C15 (amended): an error of the topic load, an error of the draft load
\* other than NotFound, the draft conflict without -force-draft and an
\* error of the final save each end the session with that error and exit
\* code 1; no load is made twice, and a session ended in the load phase
\* has created no file, opened no editor and sent nothing.  A NotFound of
\* the draft load is no such error: run() goes on to the conflict check
\* with the topic as it was, without a draft.
C15_Amended ==
    /\ [](fgpc = "exit" => exitCode = (IF err = "nil" THEN 0 ELSE 1))
    /\ []((fgpc = "exit" /\ topic0 = Nil) =>
            /\ err # "nil"
            /\ tmp = "none" /\ editor = "idle" /\ wpc = "idle"
            /\ requests = <<>>)
    /\ []((fgpc = "CheckDraft" /\ err # "nil") =>
            /\ err = "notfound"
            /\ topic.Draft = Nil
            /\ topic \in ServerTopics)
    /\ []((fgpc \in {"initial", "edit"} /\ err # "nil") =>
            (err = "draftconflict" /\ forceDraft))
    /\ [][(fgpc = "LoadTopic" /\ fgpc' # fgpc) =>
            \/ fgpc' = "exit" /\ err' # "nil" /\ topic' = Nil
            \/ fgpc' \in {"LoadDraft", "initial"} /\ err' = "nil"
                  /\ topic' # Nil]_vars
    /\ [][(fgpc = "LoadDraft" /\ fgpc' # fgpc) =>
            \/ fgpc' = "exit" /\ err' \notin {"nil", "notfound"}
            \/ fgpc' = "CheckDraft" /\ err' \in {"nil", "notfound"}]_vars
    /\ [][(fgpc' # fgpc) =>
            /\ fgpc' # "LoadTopic"
            /\ (fgpc' = "LoadDraft" => fgpc = "LoadTopic")
            /\ (fgpc' = "run_SaveTopic" => fgpc = "run_check")]_vars
    /\ [][(fgpc = "run_SaveTopicWait" /\ fgpc' # fgpc) =>
            fgpc' = "run_return"]_vars
    /\ [][(fgpc = "run_return" /\ fgpc' # fgpc) =>
            (fgpc' = "exit" /\ err' = err)]_vars

\* C15 witness: the draft load ended in NotFound and run() is at the
\* conflict check.
C15_Witness ==
    /\ fgpc = "CheckDraft"
    /\ err = "notfound"
    /\ topic # Nil

\* A Go string that is valid UTF-8.
ValidUTF8(str) == \A i \in 1..Len(str) : str[i] # BadByte

\* C16 as stated: whatever the DraftData, decoding its encoding gives a
\* DraftData equal to it in every field.
C16_Original == loaded # Nil => loaded = dd

\* C16 (amended): decoding the encoding of a DraftData whose strings are
\* valid UTF-8 gives a DraftData equal to it in every field; and what is
\* sent is one JSON string, in which every quote and every backslash of the
\* object's JSON is escaped.
C16_RoundTrip ==
    /\ (wire # <<>> =>
          /\ wire[1] = Quote /\ wire[Len(wire)] = Quote
          /\ \A i \in 2..(Len(wire) - 1) :
                wire[i] = Quote => wire[i - 1] = Backslash)
    /\ (loaded # Nil /\ ValidUTF8(dd.Title) /\ ValidUTF8(dd.Reply)
           /\ ValidUTF8(dd.OriginalText) /\ ValidUTF8(dd.Action))
          => loaded = dd

\* C16 witness: a DraftData whose reply holds a quote and a backslash, and
\* that is a whisper, has been encoded and decoded.
C16_Witness ==
    /\ loaded # Nil
    /\ dd.Reply = << Backslash, Quote >>
    /\ dd.Whisper
    /\ dd.PostID = 12

\* do() has returned for a request that got a response.
Answered == doerr # "" /\ resp.status # 0

\* The generic failure: its message is the first of the errors of the body
\* or, without them, names the status.
Generic == IF resp.body = "errors" THEN "servermsg" ELSE "status"

\* C17 as stated: 200 is success, 401 and 404 give NotFound, 409 gives the
\* conflict error for a post update only, and everything else, 409 on
\* another request included, the generic failure.
C17_Original ==
    Answered =>
        doerr = CASE resp.status = 200 -> "nil"
                  [] resp.status \in {401, 404} -> "notfound"
                  [] resp.status = 409 /\ resp.verb = "PUT" -> "conflict"
                  [] OTHER -> Generic

\* C17 (amended): 200 is success when the body decodes as the result and a
\* decoding error otherwise; 401 and 404 give NotFound; 409 gives the
\* conflict error on every request, post update or not; every other status
\* gives the generic failure, with the message of the errors array when the
\* body has one.  The request's verb changes nothing.
C17_StatusClasses ==
    /\ Answered =>
          doerr = CASE resp.status = 200 ->
                         IF resp.body = "result" THEN "nil" ELSE "decode"
                    [] resp.status \in {401, 404} -> "notfound"
                    [] resp.status = 409 -> "conflict"
                    [] OTHER -> Generic
    /\ Answered => isNotFound(doerr) = (resp.status \in {401, 404})

\* C17 witness: a draft save answered with 409 got the conflict error.
C17_Witness ==
    /\ Answered
    /\ resp.verb = "POST"
    /\ resp.status = 409
    /\ doerr = "conflict"

\* The number of outbound actions of the watcher so far: each begins with a
\* post update in live-edit mode and is one draft save otherwise.
WatcherActions ==
    Len(SelectSeq(WatcherRequests,
                  LAMBDA r : r.body.verb = (IF liveEdit THEN "PUT" ELSE "POST")))

\* The watcher is making a call or waiting for its answer.
WatcherSaving ==
    wpc \in {"SaveTopic", "SaveTopicWait", "SaveDraft", "SaveDraftWait"}

\* C18 as stated: the watcher has made no more outbound actions than the
\* editor has made modifications of the file, whether or not they succeeded.
C18_Original == WatcherActions <= mtime

\* C18 (amended): the watcher makes a call only while the file's
\* modification time differs from the one of its last successful action
\* (or of the session's start), so after a success it sends nothing until
\* the file is modified again; and it has made no more outbound actions than
\* there were modifications and failed answers: an action is repeated on a
\* later tick only after it failed.
C18_OneActionPerChange ==
    /\ WatcherSaving => (stat # mtime /\ stat # curstat)
    /\ WatcherActions <= mtime + fails
    /\ stat <= curstat /\ curstat <= mtime

\* C18 witness: one modification, a draft save that failed and its
\* repetition, which succeeded.
C18_Witness ==
    /\ ~liveEdit
    /\ mtime = 1
    /\ fails = 1
    /\ WatcherActions = 2
    /\ acts = << [op |-> "SaveDraft", err |-> "nil"] >>
    /\ stat = mtime

\* The content the watcher's latest request carries: the raw text of a post
\* update, the reply of a draft save.
LastSaved ==
    LET r == WatcherRequests[Len(WatcherRequests)]
    IN  IF r.body.verb = "PUT" THEN r.body.raw ELSE r.body.draft.Data.Reply

\* The latest call of the watcher's iteration returned without an error.
WatcherSaved == acts # <<>> /\ acts[Len(acts)].err = "nil"

\* C19: after a successful action of the watcher its baseline text is the
\* content just saved, which is the topic's current edit text; as long as
\* run() has not saved, the baseline is the topic's current edit text at
\* every comparison; and the comparison leads to a call exactly when the
\* file holds a non-empty text that differs, after trimming, from that
\* baseline, whatever the session's initial text was.
C19_BaselineRefreshed ==
    /\ [](WatcherSaved => (text = LastSaved /\ stat = curstat))
    /\ []((wpc # "idle" /\ RunRequests = <<>>) => text = CurrentEdit(topic))
    /\ [][(wpc = "compare" /\ wpc' # wpc) =>
            ((wpc' \in {"SaveTopic", "SaveDraft"})
               <=> (fileOK /\ RealChange(CurrentEdit(topic))))]_vars

\* C19 witness: the watcher saved a changed text and then, after the file
\* was changed back to the text the session began with, saved that.
C19_Witness ==
    /\ WatcherSaved
    /\ fails = 0
    /\ Len(WatcherRequests) = 2
    /\ TrimSpace(LastSaved) = TrimSpace(CurrentEdit(topic0))
    /\ TrimSpace(file) = TrimSpace(LastSaved)
    /\ BetweenIterations

\* The watcher is waiting for the answer to a request.
WatcherWaiting == wpc \in {"SaveTopicWait", "SaveDraftWait"}

\* The number of requests the watcher has sent in its current iteration:
\* those of the calls that returned (a call that could not read the file
\* sent none) and the one it waits for.
TickRequests ==
    Cardinality({ i \in 1..Len(acts) : acts[i].err # "readfile" })
    + (IF WatcherWaiting THEN 1 ELSE 0)

\* C20 as stated: the watcher sends at most one request in an iteration,
\* and at most one request of the session is in flight.
C20_Original == TickRequests <= 1 /\ inflight <= 1

\* C20 (amended): the watcher sends at most one request in an iteration,
\* or two in live-edit mode, the second being the draft save that follows
\* the answer to a failed post update; the requests in flight are the one
\* the watcher waits for and the one run() waits for, run() sends its own
\* only after the watcher returned, and so at most one is in flight.
C20_NoOverlap ==
    /\ TickRequests <= (IF liveEdit THEN 2 ELSE 1)
    /\ (TickRequests = 2 =>
          /\ acts[1].op = "SaveTopic"
          /\ acts[1].err \notin {"nil", "readfile"}
          /\ \/ wpc = "SaveDraftWait" /\ Len(acts) = 1
             \/ Len(acts) = 2 /\ acts[2].op = "SaveDraft")
    /\ inflight = (IF WatcherWaiting THEN 1 ELSE 0)
                  + (IF fgpc = "run_SaveTopicWait" THEN 1 ELSE 0)
    /\ (fgpc \in {"run_SaveTopic", "run_SaveTopicWait"} => wpc = "returned")
    /\ inflight <= 1

\* C20 witness: in live-edit mode the watcher waits for the answer to the
\* draft save it sent after its post update failed.
C20_Witness ==
    /\ liveEdit
    /\ wpc = "SaveDraftWait"
    /\ TickRequests = 2
    /\ inflight = 1

\* The locally held Post is no longer the one the session began with: a post
\* update succeeded and SaveTopic installed the Post it got back.
Pushed == topic0 # Nil /\ topic.Post # topic0.Post

\* run() found the file unchanged at the reconciliation and logged the
\* outcome line.
FoundUnchanged == fgpc \in {"run_return", "exit"} /\ logmsg # ""

\* C21 as stated: the outcome line is "Changes already saved." if and only
\* if a post update of the session succeeded.
C21_Original ==
    FoundUnchanged => (logmsg = "Changes already saved." <=> Pushed)

\* C21 (amended): when the reconciliation finds the trimmed file equal to the
\* trimmed current original text, run() sends nothing, removes the temp file
\* and returns without an error, so the session ends with exit code 0.  The
\* line it logs is "Changes already saved." if and only if -live-edit is set
\* and the current original text differs from the one the session began
\* with, and "No changes to save." otherwise; the former is logged only
\* after a post update of the watcher succeeded, but not after every one:
\* live edits that bring the post back to its first text end in "No changes
\* to save.".
C21_Unchanged ==
    /\ [][(Reconciling /\ fgpc' # fgpc /\ TrimSpace(file) # <<>>
             /\ TrimSpace(file) = TrimSpace(CurrentOriginal(topic))) =>
            /\ fgpc' = "run_return"
            /\ err' = "nil"
            /\ requests' = requests
            /\ topic' = topic
            /\ tmp' = "removed"
            /\ ~deferred'
            /\ logmsg' = (IF liveEdit /\ initial # CurrentOriginal(topic)
                          THEN "Changes already saved."
                          ELSE "No changes to save.")]_vars
    /\ [](FoundUnchanged =>
            /\ err = "nil"
            /\ RunRequests = <<>>
            /\ tmp = "removed"
            /\ (fgpc = "exit" => exitCode = 0)
            /\ logmsg \in {"Changes already saved.", "No changes to save."}
            /\ (logmsg = "Changes already saved." <=>
                  (liveEdit /\ initial # CurrentOriginal(topic)))
            /\ (logmsg = "Changes already saved." => Pushed))
    /\ [][logmsg' # logmsg => (fgpc = "run_check" /\ logmsg = "")]_vars

\* C21 witness: the session ended with "Changes already saved." and exit
\* code 0 after a live edit.
C21_Witness ==
    /\ fgpc = "exit"
    /\ exitCode = 0
    /\ logmsg = "Changes already saved."
    /\ Pushed
    /\ RunRequests = <<>>

\* A step in which a call of SaveTopic or SaveDraft returns an error: in the
\* watcher, or in run() (the file could not be read, or the answer was a
\* failure).
SaveFails ==
    \/ WatcherSaveFails
    \/ /\ fgpc \in {"run_SaveTopic", "run_SaveTopicWait"}
       /\ fgpc' = "run_return"
       /\ err' # "nil"

\* A step in which LoadTopic or LoadDraft returns without an error.
LoadSucceeds ==
    \/ fgpc = "LoadTopic" /\ fgpc' \in {"LoadDraft", "initial"}
    \/ fgpc = "LoadDraft" /\ fgpc' = "CheckDraft" /\ err' = "nil"

\* C22: a call of SaveTopic or SaveDraft that returns an error, the draft
\* save answered with a success field other than "OK" included, leaves the
\* topic as it was; the topic changes only in a step in which a load or a
\* save returns without an error; and then a post save installs the post
\* with the raw text sent, no draft and the post's draft sequence, and a
\* draft save installs the draft sent and leaves the post alone.
C22_FailedSaveFrame ==
    /\ [][SaveFails => topic' = topic]_vars
    /\ [][topic' # topic =>
            (LoadSucceeds \/ SaveTopicSucceeds \/ SaveDraftSucceeds)]_vars
    /\ [][(SaveTopicSucceeds /\ wpc = "SaveTopicWait") =>
            /\ topic'.Post.Raw = wsent.raw
            /\ topic'.Draft = Nil
            /\ topic'.DraftSequence = topic'.Post.DraftSequence]_vars
    /\ [][(SaveTopicSucceeds /\ fgpc = "run_SaveTopicWait") =>
            /\ topic'.Post.Raw = fsent.raw
            /\ topic'.Draft = Nil
            /\ topic'.DraftSequence = topic'.Post.DraftSequence]_vars
    /\ [][SaveDraftSucceeds =>
            /\ topic'.Draft = wsent.draft
            /\ topic'.Post = topic.Post]_vars

\* C22 witness: a draft save of a session begun without a draft was answered
\* with 200 and a success field other than "OK".
C22_Witness ==
    /\ acts # <<>>
    /\ acts[Len(acts)] = [op |-> "SaveDraft", err |-> "draftnotok"]
    /\ topic = topic0
    /\ topic.Draft = Nil

\* The session has ended with the error of a failure of edit().
EndedWith(e) == fgpc = "exit" /\ err = e

\* A step in which the watcher's os.Stat fails.
PollingStatFails == wpc = "stat" /\ ~fileOK /\ wpc' # wpc

\* C23 as stated: a failure to write the temp file, a failure to launch the
\* editor (it never wrote the file) and a failure of os.Stat each end the
\* attempt with the error, nothing sent before and the temp file neither
\* removed nor renamed; the failure of the watcher's os.Stat ends the
\* watcher's attempt as well.
C23_Original ==
    /\ [](EndedWith("tmpfile") =>
            requests = <<>> /\ tmp \notin {"removed", "renamed"})
    /\ [](EndedWith("stat") =>
            requests = <<>> /\ tmp \notin {"removed", "renamed"})
    /\ []((EndedWith("editor") /\ mtime = 0) =>
            requests = <<>> /\ tmp \notin {"removed", "renamed"})
    /\ [][PollingStatFails => wpc' = "returned"]_vars

\* C23 (amended): a failure to create the temp file ends the session with
\* the error and no file; a failure to write or close it ends the session
\* with the error and the file removed again; a failure of the os.Stat that
\* precedes the editor ends the session with the error and the file in
\* place, no watcher and no editor started; a failure of the editor ends
\* the session with the error and the file in place, and with nothing sent
\* when the editor never wrote the file.  Each of them ends with exit code
\* 1, without a request of run().  A failure of the watcher's os.Stat ends
\* nothing: the watcher sends nothing in that iteration and goes on to the
\* next one (it returns only when the iteration was the last), and the
\* error reaches neither run() nor the operator.
C23_LocalFailures ==
    /\ [](err = "tmpfile" =>
            /\ filename = ""
            /\ tmp \in {"none", "removed"}
            /\ requests = <<>>
            /\ wpc = "idle" /\ editor = "idle"
            /\ ~deferred)
    /\ [](err = "stat" =>
            /\ filename = "tmp"
            /\ tmp = "present"
            /\ requests = <<>>
            /\ wpc = "idle" /\ editor = "idle"
            /\ ~deferred)
    /\ [](err = "editor" =>
            /\ editor = "failed"
            /\ filename = "tmp"
            /\ tmp = "present"
            /\ RunRequests = <<>>
            /\ (mtime = 0 => requests = <<>>)
            /\ ~deferred)
    /\ []((fgpc = "exit" /\ err \in {"tmpfile", "stat", "editor"}) =>
            exitCode = 1)
    /\ [][(fgpc = "edit" /\ fgpc' = "run_check") =>
            (err' = "tmpfile" /\ tmp' \in {"none", "removed"})]_vars
    /\ [][(fgpc = "edit_stat" /\ fgpc' = "run_check") => err' = "stat"]_vars
    /\ [][(fgpc = "cmdRun" /\ fgpc' = "run_check") =>
            (err' = "editor" /\ editor = "failed")]_vars
    /\ [][PollingStatFails =>
            /\ UNCHANGED << fgpc, err, exitCode, requests, topic, tmp, stat,
                            text >>
            /\ IF last THEN wpc' = "returned" /\ done'
                       ELSE wpc' = "select" /\ ~done']_vars

\* C23 witness: the session ended with the error of a write to the temp
\* file, which was removed again.
C23_Witness ==
    /\ EndedWith("tmpfile")
    /\ tmp = "removed"
    /\ exitCode = 1

\* The session goes on, or went on, with a draft whose original text is not
\* the post's raw text, by -force-draft.
Overrode ==
    /\ forceDraft
    /\ \/ fgpc = "initial" /\ err = "draftconflict"
       \/ topic0 # Nil /\ DraftConflict(topic0)

\* The original text a save request carries: raw_old of a post update, the
\* originalText of a draft save.
SentOriginal(r) ==
    IF r.body.verb = "PUT" THEN r.body.raw_old
    ELSE r.body.draft.Data.OriginalText

\* A step in which a save request is sent.
Sends == Len(requests') = Len(requests) + 1

\* C24 as stated: in every state of a session that did not override a
\* conflict, the topic's current original text is the raw text of the post
\* held locally.
C24_Original ==
    (topic # Nil /\ ~Overrode) => CurrentOriginal(topic) = topic.Post.Raw

\* C24 (amended): from the conflict check on, in every state of a session
\* that passed it without overriding a conflict, the topic's current
\* original text is the raw text of the post held locally; every post
\* update of such a session sends that raw text as raw_old and every draft
\* save carries it as originalText, whatever saves came before.  Between
\* the draft load and the conflict check the topic may hold a draft whose
\* original text is another text; a session that ends there with the
\* conflict error keeps it, and has sent nothing.
C24_OriginalIsRaw ==
    /\ []((topic # Nil /\ ~Overrode /\ fgpc # "CheckDraft"
             /\ err # "draftconflict") =>
            CurrentOriginal(topic) = topic.Post.Raw)
    /\ [][(Sends /\ ~Overrode) =>
            SentOriginal(requests'[Len(requests')]) = topic.Post.Raw]_vars
    /\ []((topic # Nil /\ CurrentOriginal(topic) # topic.Post.Raw
             /\ ~Overrode) =>
            /\ requests = <<>>
            /\ topic0 = Nil
            /\ fgpc \in {"CheckDraft", "exit"})

\* C24 witness: in a session begun without a draft a live edit failed, its
\* draft fallback was saved, and a later live edit succeeded.
C24_Witness ==
    /\ liveEdit
    /\ ~Overrode
    /\ topic0 # Nil /\ topic0.Draft = Nil
    /\ Len(WatcherRequests) = 3
    /\ WatcherRequests[2].body.verb = "POST"
    /\ acts = << [op |-> "SaveTopic", err |-> "nil"] >>
    /\ topic.Draft = Nil
    /\ topic.Post # topic0.Post

\* The last iteration: once stop is closed the watcher, at its select, starts
\* one more iteration; it begins with the stat, goes only forward through
\* the loop body (stat, compare and, when the file holds a change, the save
\* calls) and ends with close(done), wherever in the body it ends; last is
\* set nowhere else, the watcher returns from no other iteration, and
\* edit() returns from <-done only once done is closed.
LastIteration ==
    /\ [][(wpc = "select" /\ stop /\ wpc' # wpc) =>
            (last' /\ wpc' = "stat")]_vars
    /\ [][last' # last => (wpc = "select" /\ stop /\ last')]_vars
    /\ [](last => stop)
    /\ [][(last /\ wpc' # wpc) =>
            /\ WatchPos(wpc') > WatchPos(wpc)
            /\ (wpc = "stat" => wpc' \in {"compare", "returned"})
            /\ (wpc = "compare" =>
                  IF fileOK /\ RealChange(text)
                  THEN wpc' \in {"SaveTopic", "SaveDraft"}
                  ELSE wpc' = "returned")]_vars
    /\ [](done <=> wpc = "returned")
    /\ [](wpc = "returned" => last)
    /\ [][(fgpc = "waitDone" /\ fgpc' # fgpc) =>
            (done /\ fgpc' = "run_check" /\ err' = "nil"
                  /\ filename' = "tmp")]_vars

\* C25: after stop is closed the watcher makes exactly one more full
\* iteration, the last, and then closes done; and in every execution in
\* which the editor exits successfully stop is closed, the watcher closes
\* done and edit() returns the file name without an error, however the last
\* iteration ends (FairSpec).
C25_LastIteration ==
    /\ LastIteration
    /\ ((editor = "ok" /\ fgpc = "cmdRun") ~> stop)
    /\ (stop ~> done)
    /\ (fgpc = "waitDone" ~> (fgpc = "run_check" /\ err = "nil" /\ done))

\* C25 witness: the watcher has closed done after a last iteration in which
\* the save failed, and edit() has returned.
C25_Witness ==
    /\ wpc = "returned" /\ done
    /\ acts # <<>>
    /\ acts[Len(acts)].err # "nil"
    /\ fgpc = "run_check" /\ err = "nil"

\* run() has ended and the temp file it got from edit() was created.
EndedWithFile == fgpc = "exit" /\ filename = "tmp"

\* C26: the temp file is removed or renamed at most once and not touched
\* again.  When run() has ended with the file edit() created: the file is
\* removed if the reconciliation found it empty or unchanged; it is renamed
\* to the backup path if the reconciliation found it changed and not empty,
\* whether the final save succeeded or failed; it is in place under its
\* session name if the editor, the stat before it or the read of the file
\* at the reconciliation failed.  The reconciliation finds what the file
\* holds: empty is the trimmed file being empty, changed is the trimmed
\* file differing from the trimmed current original text.
C26_Disposal ==
    /\ [][(tmp \in {"removed", "renamed"}) => (tmp' = tmp)]_vars
    /\ [][(Reconciling /\ fgpc' # fgpc) =>
            /\ empty' = (TrimSpace(file) = <<>>)
            /\ different' =
                 (TrimSpace(file) # TrimSpace(CurrentOriginal(topic)))]_vars
    /\ [](EndedWithFile =>
            /\ tmp \in {"removed", "renamed", "present"}
            /\ (editor = "ok" /\ fileOK /\ (empty \/ ~different)) =>
                  (tmp = "removed" /\ RunRequests = <<>>)
            /\ (editor = "ok" /\ fileOK /\ different /\ ~empty) =>
                  (tmp = "renamed" /\ Len(RunRequests) = 1)
            /\ (editor = "failed" \/ ~fileOK) =>
                  (tmp = "present" /\ err \in {"editor", "readfile"}
                     /\ RunRequests = <<>>)
            /\ (err = "stat" => tmp = "present")
            /\ (tmp = "removed" <=>
                  (err \in {"nil", "nocontent"} /\ RunRequests = <<>>))
            /\ (tmp = "renamed" <=> Len(RunRequests) = 1))
    /\ [](tmp = "renamed" => fgpc = "exit")

\* C26 witness: the session ended with an error of the final save and the
\* temp file renamed to the backup path.
C26_Witness ==
    /\ EndedWithFile
    /\ tmp = "renamed"
    /\ err \notin {"nil", "nocontent", "editor", "readfile", "stat"}
    /\ exitCode = 1

\* The session began on a loaded draft and has ended after the editor
\* exited successfully without writing the file.
UntouchedDraftSession ==
    /\ fgpc = "exit"
    /\ topic0 # Nil /\ topic0.Draft # Nil
    /\ editor = "ok" /\ mtime = 0 /\ fileOK

====
